---------------------------- MODULE Spec2Model ----------------------------
(***************************************************************************)
(* Model of src/main.py: GIFConverter.convert_to_gif and the conversion    *)
(* branch of main(), run by concurrent Streamlit sessions that share one   *)
(* working directory.                                                      *)
(*                                                                         *)
(* Times.  The widgets hand convert_to_gif Python floats (IEEE-754         *)
(* doubles).  A double x that lies within a few ulps of k/10 is written    *)
(*     [k |-> k, e |-> e]   with   x = (k * 2^56 + e) / (10 * 2^56),       *)
(* which is exact for every double in [1/16, 128) and for 0.  Addition,    *)
(* subtraction and multiplication by a small integer are exact on the      *)
(* pair (k, e) and are then rounded to the nearest double, ties to even,   *)
(* by RoundD, so that np.arange is computed as numpy computes it.          *)
(***************************************************************************)
EXTENDS Integers, Sequences, FiniteSets, TLC

(* ------------------------------ bounds -------------------------------- *)

\* Conversion requests (button presses) started over all sessions.
MaxRequests == 2

(* ------------------------- IEEE-754 doubles --------------------------- *)

\* The binary exponents the pair representation covers: doubles in
\* [1/16, 128).  One unit of e is 2^-56 / 10, the tenth of the smallest ulp.
Exponents == (-4)..6
MinExp == CHOOSE j \in Exponents : \A i \in Exponents : j <= i
MaxExp == CHOOSE j \in Exponents : \A i \in Exponents : j >= i
\* A double has 52 explicit mantissa bits.
MantBits == 52

RECURSIVE Pow2(_)
Pow2(n) == IF n = 0 THEN 1 ELSE 2 * Pow2(n - 1)

\* 2^n mod 20, for n >= 2 (period 4).
Pow2Mod20(n) == CASE n % 4 = 0 -> 16
                  [] n % 4 = 1 -> 12
                  [] n % 4 = 2 -> 4
                  [] n % 4 = 3 -> 8

\* A double near k tenths: the value (k * 2^56 + e) / (10 * 2^56).
Float == [k : Int, e : Int]

\* x >= 2^j
GePow2(x, j) ==
    IF j >= 0
    THEN x.k > 10 * Pow2(j) \/ (x.k = 10 * Pow2(j) /\ x.e >= 0)
    ELSE x.k * Pow2(-j) > 10 \/ (x.k * Pow2(-j) = 10 /\ x.e >= 0)

\* The binary exponent j of x: 2^j <= x < 2^(j+1).
Binade[x \in Float] ==
    CHOOSE j \in Exponents :
        GePow2(x, j) /\ (j = MaxExp \/ ~GePow2(x, j + 1))

\* x, of binary exponent j, rounded to a multiple of the ulp
\* U = 10 * 2^(j+4) units of 1/(10 * 2^56); R is x modulo 2U, which tells the
\* remainder and whether the mantissa below x is odd.  Ties go to even.
RoundTo[x \in Float, j \in Int] ==
    LET U == 10 * Pow2(j - MinExp)
        P == ((x.k % 20) * Pow2Mod20(MantBits - j)) % 20
        R == (P * Pow2(j - MinExp) + x.e) % (2 * U)
    IN  [k |-> x.k,
         e |-> IF R < U
               THEN (IF 2 * R > U THEN x.e + U - R ELSE x.e - R)
               ELSE (IF 2 * (R - U) >= U THEN x.e + 2 * U - R
                                         ELSE x.e - (R - U))]

\* The exact value x rounded to the nearest double, ties to even.  (The
\* operations on doubles are functions, so that TLC evaluates an operand
\* once.)
RoundD[x \in Float] ==
    IF x.k = 0 /\ x.e = 0 THEN x ELSE RoundTo[x, Binade[x]]

\* float(k/10): the double nearest to k tenths of a second.
ToFloat(k) == RoundD[[k |-> k, e |-> 0]]

FAdd[a \in Float, b \in Float] == RoundD[[k |-> a.k + b.k, e |-> a.e + b.e]]
FSub[a \in Float, b \in Float] == RoundD[[k |-> a.k - b.k, e |-> a.e - b.e]]
\* i * a for an integer i (exact as a double).
FMulInt[i \in Int, a \in Float] == RoundD[[k |-> i * a.k, e |-> i * a.e]]

FLt(a, b) == a.k < b.k \/ (a.k = b.k /\ a.e < b.e)
FGe(a, b) == ~FLt(a, b)
FMin[a \in Float, b \in Float] == IF FLt(b, a) THEN b ELSE a

\* floor(log2 n) for n >= 1
RECURSIVE ILog2(_)
ILog2(n) == IF n <= 1 THEN 0 ELSE 1 + ILog2(n \div 2)

\* floor(n / d) in place of ceil
FloorFDiv(n, d) == IF n.k <= 0 THEN 0 ELSE n.k \div d.k

\* math.ceil of the double quotient n / d (the quotient rounded to nearest).
\* When d.k does not divide n.k the quotient is far from an integer.  When
\* n.k = q * d.k the quotient is q + dd / d with dd = n.e - q * d.e units, and
\* it rounds above q exactly when that excess passes half an ulp of q.
CeilFDiv(n, d) ==
    IF n.k <= 0 THEN (IF n.k = 0 /\ n.e > 0 THEN 1 ELSE 0)
    ELSE IF n.k % d.k # 0 THEN (n.k \div d.k) + 1
    ELSE LET q  == n.k \div d.k
             dd == n.e - q * d.e
             T  == d.k * Pow2(ILog2(q) - MinExp - 1)
         IN  IF dd > T \/ (dd = T /\ d.e < 0) THEN q + 1 ELSE q


\* int(x) for a double x >= 0: truncation toward zero.
IntTrunc(x) == IF x.k % 10 = 0 /\ x.e < 0 THEN (x.k \div 10) - 1
               ELSE x.k \div 10

\* np.arange(start, stop, step) on doubles: ceil((stop - start) / step)
\* elements; the first two are start and start + step, the others
\* start + i * delta with delta = (start + step) - start.
Arange(start, stop, step) ==
    LET n      == CeilFDiv(FSub[stop, start], step)
        second == FAdd[start, step]
        delta  == FSub[second, start]
    IN  [i \in 1..n |->
            IF i = 1 THEN start
            ELSE IF i = 2 THEN second
            ELSE FAdd[start, FMulInt[i - 1, delta]]]


(* --------------------------- inputs and tables ------------------------ *)

\* Browser sessions; Streamlit runs each session's script on its own thread
\* of one process, so all of them share the directory temp_gifs.
Sessions == {"s1", "s2"}

\* Widget values, in tenths of a second (number_input, step 0.1).
StartTimes      == {0, 1, 4}      \* min_value 0.0
Durations       == {2, 10}        \* min_value 0.1
SampleIntervals == {1, 3}         \* min_value 0.1
\* clip.duration of the uploaded video, in tenths of a second.
ClipDurations   == {4}
Repeats         == {"No repeat", "Repeat"}

None   == "None"
NoPath == <<>>

\* GIFConverter.QUALITY_SETTINGS as the class body sets it.
QualityTable ==
    [Best   |-> [opt |-> "-lossless"],
     Good   |-> [opt |-> None],
     Medium |-> [opt |-> None],
     Low    |-> [opt |-> None]]

Qualities == DOMAIN QualityTable

\* The widgets' initial values.
DefaultReq ==
    [start_time      |-> ToFloat(0),
     duration        |-> ToFloat(30),
     sample_interval |-> ToFloat(5),
     quality         |-> "Best",
     repeat          |-> "No repeat"]

Requests ==
    {[start_time      |-> ToFloat(a),
      duration        |-> ToFloat(d),
      sample_interval |-> ToFloat(i),
      quality         |-> q,
      repeat          |-> r] :
        a \in StartTimes, d \in Durations, i \in SampleIntervals,
        q \in Qualities, r \in Repeats}

\* output_dir / f"output_{int(start_time)}_{int(duration)}.gif"
OutputPath(start_time, duration) == <<IntTrunc(start_time), IntTrunc(duration)>>

OutputPaths ==
    {OutputPath(ToFloat(a), ToFloat(d)) : a \in StartTimes, d \in Durations}

\* A file's bytes, named by the write_gif call that produced them.
NoFile == [owner |-> "nobody", id |-> 0, complete |-> FALSE]
Bytes(s, n, done) == [owner |-> s, id |-> n, complete |-> done]

\* start_time >= clip.duration
WindowInvalidStrict(start_time, clip_duration) == FLt(clip_duration, start_time)
WindowInvalid(start_time, clip_duration) == FGe(start_time, clip_duration)

\* end_time = min(start_time + duration, clip.duration)
EndTime(start_time, duration, clip_duration) ==
    FMin[FAdd[start_time, duration], clip_duration]

\* loop = 0 if repeat == "Repeat" else 1
LoopSwapped(repeat) == IF repeat = "Repeat" THEN 1 ELSE 0
Loop(repeat) == IF repeat = "Repeat" THEN 0 ELSE 1

\* settings = GIFConverter.QUALITY_SETTINGS[quality]; opt=settings["opt"]
OptLossless(table, quality) == table["Best"].opt
Opt(table, quality) == table[quality].opt

\* What convert_to_gif returns: output_path, or None from the except branch.
ReturnPathAlways(e, output_path) == output_path
ReturnValue(e, output_path) == IF e = "none" THEN output_path ELSE NoPath

\* The for loop over sample_times: where control goes after a frame.
AfterFrameEager(fr, times) == "sequence"
AfterFrame(fr, times) == IF Len(fr) = Len(times) THEN "sequence" ELSE "fetch"

(* -------------------------------- state ------------------------------- *)

VARIABLES
    pc,             \* each session's position in main / convert_to_gif
    id,             \* the number of the session's request in flight
    req,            \* the widget values passed to convert_to_gif
    clip_duration,  \* clip.duration of the session's uploaded video
    temp_file,      \* the session's NamedTemporaryFile is on disk
    clip,           \* "unset" | "open" | "closed": VideoFileClip
    sample_times,   \* np.arange(...)
    requested,      \* timestamps passed to clip.get_frame, in call order
    frames,         \* the frames list (each frame named by its timestamp)
    sampled_clip,   \* "unset" | "open" | "closed": ImageSequenceClip
    sequence_calls, \* frame lists passed to ImageSequenceClip
    gif_writes,     \* write_gif calls: frames, opt, loop, path
    exc,            \* the exception convert_to_gif caught, or "none"
    gif_path,       \* convert_to_gif's return value (NoPath before)
    messages,       \* st.success / st.error shown for the request
    image,          \* bytes handed to st.image
    download,       \* bytes handed to st.download_button
    disk,           \* temp_gifs: path -> bytes
    started,        \* requests started so far
    QUALITY_SETTINGS

vars == <<pc, id, req, clip_duration, temp_file, clip, sample_times,
          requested, frames, sampled_clip, sequence_calls, gif_writes, exc,
          gif_path, messages, image, download, disk, started,
          QUALITY_SETTINGS>>

Init ==
    /\ pc = [s \in Sessions |-> "idle"]
    /\ id = [s \in Sessions |-> 0]
    /\ req = [s \in Sessions |-> DefaultReq]
    /\ clip_duration = [s \in Sessions |-> ToFloat(0)]
    /\ temp_file = [s \in Sessions |-> FALSE]
    /\ clip = [s \in Sessions |-> "unset"]
    /\ sample_times = [s \in Sessions |-> <<>>]
    /\ requested = [s \in Sessions |-> <<>>]
    /\ frames = [s \in Sessions |-> <<>>]
    /\ sampled_clip = [s \in Sessions |-> "unset"]
    /\ sequence_calls = [s \in Sessions |-> <<>>]
    /\ gif_writes = [s \in Sessions |-> <<>>]
    /\ exc = [s \in Sessions |-> "none"]
    /\ gif_path = [s \in Sessions |-> NoPath]
    /\ messages = [s \in Sessions |-> {}]
    /\ image = [s \in Sessions |-> NoFile]
    /\ download = [s \in Sessions |-> NoFile]
    /\ disk = [p \in OutputPaths |-> NoFile]
    /\ started = 0
    /\ QUALITY_SETTINGS = QualityTable

(* ------------------------------- actions ------------------------------ *)

\* main, lines 208-225: the button is pressed with the widgets' values; the
\* upload is saved to a temporary file and convert_to_gif is called.
Convert(s, R) ==
    /\ pc[s] = "idle"
    /\ started < MaxRequests
    /\ \E r \in R, c \in ClipDurations :
          /\ req' = [req EXCEPT ![s] = r]
          /\ clip_duration' = [clip_duration EXCEPT ![s] = ToFloat(c)]
    /\ started' = started + 1
    /\ id' = [id EXCEPT ![s] = started + 1]
    /\ temp_file' = [temp_file EXCEPT ![s] = TRUE]
    /\ pc' = [pc EXCEPT ![s] = "open"]
    /\ UNCHANGED <<clip, sample_times, requested, frames, sampled_clip,
                   sequence_calls, gif_writes, exc, gif_path, messages,
                   image, download, disk, QUALITY_SETTINGS>>

\* convert_to_gif, line 68: mp.VideoFileClip(video_path) returns the clip or
\* raises (an upload ffmpeg cannot read).
OpenClip(s) ==
    /\ pc[s] = "open"
    /\ \/ /\ clip' = [clip EXCEPT ![s] = "open"]
          /\ pc' = [pc EXCEPT ![s] = "window"]
          /\ exc' = exc
       \/ /\ exc' = [exc EXCEPT ![s] = "OpenError"]
          /\ pc' = [pc EXCEPT ![s] = "finally"]
          /\ clip' = clip
    /\ UNCHANGED <<id, req, clip_duration, temp_file, sample_times, requested,
                   frames, sampled_clip, sequence_calls, gif_writes, gif_path,
                   messages, image, download, disk, started, QUALITY_SETTINGS>>

\* convert_to_gif, lines 74-77: end_time and np.arange.
SampleTimes(r, clip_dur) ==
    Arange(r.start_time,
           EndTime(r.start_time, r.duration, clip_dur),
           r.sample_interval)

\* convert_to_gif, lines 71-77: the window check, end_time and np.arange.
CheckWindow(s) ==
    /\ pc[s] = "window"
    /\ LET invalid == WindowInvalid(req[s].start_time, clip_duration[s])
           times   == SampleTimes(req[s], clip_duration[s])
       IN  /\ exc' = [exc EXCEPT ![s] = IF invalid THEN "ValueError" ELSE @]
           /\ sample_times' = [sample_times EXCEPT ![s] =
                                  IF invalid THEN @ ELSE times]
           /\ pc' = [pc EXCEPT ![s] =
                        IF invalid THEN "finally" ELSE AfterFrame(<<>>, times)]
    /\ UNCHANGED <<id, req, clip_duration, temp_file, clip, requested, frames,
                   sampled_clip, sequence_calls, gif_writes, gif_path,
                   messages, image, download, disk, started, QUALITY_SETTINGS>>

\* A variant of the loop body that drops a frame whose decode failed and
\* goes on with the next timestamp.
GetFrameSkip(s) ==
    /\ pc[s] = "fetch"
    /\ LET t == sample_times[s][Len(requested[s]) + 1]
           more == IF Len(requested[s]) + 1 = Len(sample_times[s])
                   THEN "sequence" ELSE "fetch"
       IN  /\ requested' = [requested EXCEPT ![s] = Append(@, t)]
           /\ \/ frames' = [frames EXCEPT ![s] = Append(@, t)]
              \/ frames' = frames
           /\ pc' = [pc EXCEPT ![s] = more]
    /\ UNCHANGED <<id, req, clip_duration, temp_file, clip, sample_times,
                   sampled_clip, sequence_calls, gif_writes, exc, gif_path,
                   messages, image, download, disk, started, QUALITY_SETTINGS>>

\* convert_to_gif, lines 80-82: one iteration of the loop; clip.get_frame(t)
\* returns the frame or raises.
GetFrame(s) ==
    /\ pc[s] = "fetch"
    /\ LET t == sample_times[s][Len(frames[s]) + 1]
       IN  /\ requested' = [requested EXCEPT ![s] = Append(@, t)]
           /\ \/ /\ frames' = [frames EXCEPT ![s] = Append(@, t)]
                 /\ pc' = [pc EXCEPT ![s] =
                              AfterFrame(Append(frames[s], t), sample_times[s])]
                 /\ exc' = exc
              \/ /\ exc' = [exc EXCEPT ![s] = "DecodeError"]
                 /\ pc' = [pc EXCEPT ![s] = "finally"]
                 /\ frames' = frames
    /\ UNCHANGED <<id, req, clip_duration, temp_file, clip, sample_times,
                   sampled_clip, sequence_calls, gif_writes, gif_path,
                   messages, image, download, disk, started, QUALITY_SETTINGS>>

\* convert_to_gif, lines 85-86: mp.ImageSequenceClip(frames, fps); moviepy
\* reads sequence[0] first, which raises IndexError on an empty list.
MakeSequenceClip(s) ==
    /\ pc[s] = "sequence"
    /\ sequence_calls' = [sequence_calls EXCEPT ![s] = Append(@, frames[s])]
    /\ IF frames[s] = <<>>
       THEN /\ exc' = [exc EXCEPT ![s] = "IndexError"]
            /\ pc' = [pc EXCEPT ![s] = "finally"]
            /\ sampled_clip' = sampled_clip
       ELSE /\ sampled_clip' = [sampled_clip EXCEPT ![s] = "open"]
            /\ pc' = [pc EXCEPT ![s] = "write"]
            /\ exc' = exc
    /\ UNCHANGED <<id, req, clip_duration, temp_file, clip, sample_times,
                   requested, frames, gif_writes, gif_path, messages, image,
                   download, disk, started, QUALITY_SETTINGS>>

\* convert_to_gif, lines 89-107: the output path, the quality and loop
\* options and the call of write_gif, which either fails before ffmpeg has
\* opened the output or creates (truncates) the file and starts writing.
WriteGifBegin(s) ==
    /\ pc[s] = "write"
    /\ LET path == OutputPath(req[s].start_time, req[s].duration)
       IN  /\ gif_writes' = [gif_writes EXCEPT ![s] = Append(@,
                  [frames |-> frames[s],
                   opt    |-> Opt(QUALITY_SETTINGS, req[s].quality),
                   loop   |-> Loop(req[s].repeat),
                   path   |-> path])]
           /\ \/ /\ disk' = [disk EXCEPT ![path] = Bytes(s, id[s], FALSE)]
                 /\ pc' = [pc EXCEPT ![s] = "writing"]
                 /\ exc' = exc
              \/ /\ exc' = [exc EXCEPT ![s] = "EncodeError"]
                 /\ pc' = [pc EXCEPT ![s] = "finally"]
                 /\ disk' = disk
    /\ UNCHANGED <<id, req, clip_duration, temp_file, clip, sample_times,
                   requested, frames, sampled_clip, sequence_calls, gif_path,
                   messages, image, download, started, QUALITY_SETTINGS>>

\* write_gif ends: ffmpeg has written the whole GIF, or it failed part-way
\* and what it wrote stays behind.  Bytes written to a file that another
\* session has meanwhile unlinked or truncated do not reach the path.
WriteGifEnd(s) ==
    /\ pc[s] = "writing"
    /\ LET path == OutputPath(req[s].start_time, req[s].duration)
       IN  \/ /\ disk' = IF disk[path] = Bytes(s, id[s], FALSE)
                         THEN [disk EXCEPT ![path] = Bytes(s, id[s], TRUE)]
                         ELSE disk
              /\ exc' = exc
           \/ /\ exc' = [exc EXCEPT ![s] = "EncodeError"]
              /\ disk' = disk
    /\ pc' = [pc EXCEPT ![s] = "finally"]
    /\ UNCHANGED <<id, req, clip_duration, temp_file, clip, sample_times,
                   requested, frames, sampled_clip, sequence_calls, gif_writes,
                   gif_path, messages, image, download, started,
                   QUALITY_SETTINGS>>

\* convert_to_gif, lines 109-118: return output_path, or None from the
\* except branch; the finally block closes the clips that were bound.
Finally(s) ==
    /\ pc[s] = "finally"
    /\ clip' = [clip EXCEPT ![s] = IF @ = "open" THEN "closed" ELSE @]
    /\ sampled_clip' = [sampled_clip EXCEPT ![s] =
                           IF @ = "open" THEN "closed" ELSE @]
    /\ gif_path' = [gif_path EXCEPT ![s] =
          ReturnValue(exc[s], OutputPath(req[s].start_time, req[s].duration))]
    /\ pc' = [pc EXCEPT ![s] = "unlink_temp"]
    /\ UNCHANGED <<id, req, clip_duration, temp_file, sample_times, requested,
                   frames, sequence_calls, gif_writes, exc, messages, image,
                   download, disk, started, QUALITY_SETTINGS>>

\* main, line 228: os.unlink(temp_file_path)
UnlinkTemp(s) ==
    /\ pc[s] = "unlink_temp"
    /\ temp_file' = [temp_file EXCEPT ![s] = FALSE]
    /\ pc' = [pc EXCEPT ![s] = "exists"]
    /\ UNCHANGED <<id, req, clip_duration, clip, sample_times, requested,
                   frames, sampled_clip, sequence_calls, gif_writes, exc,
                   gif_path, messages, image, download, disk, started,
                   QUALITY_SETTINGS>>

\* main, lines 230-231 and 249-251: gif_path and os.path.exists(gif_path)
CheckExists(s) ==
    /\ pc[s] = "exists"
    /\ IF gif_path[s] # NoPath /\ disk[gif_path[s]] # NoFile
       THEN /\ messages' = [messages EXCEPT ![s] = @ \cup {"success"}]
            /\ pc' = [pc EXCEPT ![s] = "image"]
       ELSE /\ messages' = [messages EXCEPT ![s] = @ \cup {"error"}]
            /\ pc' = [pc EXCEPT ![s] = "done"]
    /\ UNCHANGED <<id, req, clip_duration, temp_file, clip, sample_times,
                   requested, frames, sampled_clip, sequence_calls, gif_writes,
                   exc, gif_path, image, download, disk, started,
                   QUALITY_SETTINGS>>

\* main, lines 234-236: open(gif_path, "rb") and st.image; a missing file
\* raises FileNotFoundError, which lines 253-255 turn into st.error.
ShowImage(s) ==
    /\ pc[s] = "image"
    /\ IF disk[gif_path[s]] = NoFile
       THEN /\ messages' = [messages EXCEPT ![s] = @ \cup {"error"}]
            /\ pc' = [pc EXCEPT ![s] = "done"]
            /\ image' = image
       ELSE /\ image' = [image EXCEPT ![s] = disk[gif_path[s]]]
            /\ pc' = [pc EXCEPT ![s] = "download"]
            /\ messages' = messages
    /\ UNCHANGED <<id, req, clip_duration, temp_file, clip, sample_times,
                   requested, frames, sampled_clip, sequence_calls, gif_writes,
                   exc, gif_path, download, disk, started, QUALITY_SETTINGS>>

\* main, lines 239-245: open(gif_path, "rb") and st.download_button
Download(s) ==
    /\ pc[s] = "download"
    /\ IF disk[gif_path[s]] = NoFile
       THEN /\ messages' = [messages EXCEPT ![s] = @ \cup {"error"}]
            /\ pc' = [pc EXCEPT ![s] = "done"]
            /\ download' = download
       ELSE /\ download' = [download EXCEPT ![s] = disk[gif_path[s]]]
            /\ pc' = [pc EXCEPT ![s] = "unlink_gif"]
            /\ messages' = messages
    /\ UNCHANGED <<id, req, clip_duration, temp_file, clip, sample_times,
                   requested, frames, sampled_clip, sequence_calls, gif_writes,
                   exc, gif_path, image, disk, started, QUALITY_SETTINGS>>

\* main, line 248: os.unlink(gif_path)
UnlinkGif(s) ==
    /\ pc[s] = "unlink_gif"
    /\ IF disk[gif_path[s]] = NoFile
       THEN /\ messages' = [messages EXCEPT ![s] = @ \cup {"error"}]
            /\ disk' = disk
       ELSE /\ disk' = [disk EXCEPT ![gif_path[s]] = NoFile]
            /\ messages' = messages
    /\ pc' = [pc EXCEPT ![s] = "done"]
    /\ UNCHANGED <<id, req, clip_duration, temp_file, clip, sample_times,
                   requested, frames, sampled_clip, sequence_calls, gif_writes,
                   exc, gif_path, image, download, started, QUALITY_SETTINGS>>

\* The script run has ended; the session's next interaction reruns main
\* with fresh locals.  Files left in temp_gifs stay.
Rerun(s) ==
    /\ pc[s] = "done"
    /\ pc' = [pc EXCEPT ![s] = "idle"]
    /\ id' = [id EXCEPT ![s] = 0]
    /\ req' = [req EXCEPT ![s] = DefaultReq]
    /\ clip_duration' = [clip_duration EXCEPT ![s] = ToFloat(0)]
    /\ clip' = [clip EXCEPT ![s] = "unset"]
    /\ sample_times' = [sample_times EXCEPT ![s] = <<>>]
    /\ requested' = [requested EXCEPT ![s] = <<>>]
    /\ frames' = [frames EXCEPT ![s] = <<>>]
    /\ sampled_clip' = [sampled_clip EXCEPT ![s] = "unset"]
    /\ sequence_calls' = [sequence_calls EXCEPT ![s] = <<>>]
    /\ gif_writes' = [gif_writes EXCEPT ![s] = <<>>]
    /\ exc' = [exc EXCEPT ![s] = "none"]
    /\ gif_path' = [gif_path EXCEPT ![s] = NoPath]
    /\ messages' = [messages EXCEPT ![s] = {}]
    /\ image' = [image EXCEPT ![s] = NoFile]
    /\ download' = [download EXCEPT ![s] = NoFile]
    /\ UNCHANGED <<temp_file, disk, started, QUALITY_SETTINGS>>

\* The steps of a request in flight.
Step(s) ==
    \/ OpenClip(s)
    \/ CheckWindow(s)
    \/ GetFrame(s)
    \/ MakeSequenceClip(s)
    \/ WriteGifBegin(s)
    \/ WriteGifEnd(s)
    \/ Finally(s)
    \/ UnlinkTemp(s)
    \/ CheckExists(s)
    \/ ShowImage(s)
    \/ Download(s)
    \/ UnlinkGif(s)

\* One browser session, every widget value of the model.
Next == \E s \in {"s1"} : Convert(s, Requests) \/ Step(s) \/ Rerun(s)

Spec == Init /\ [][Next]_vars

\* The widget values used when two sessions run side by side.
ConcurrentRequests ==
    {r \in Requests : /\ r.start_time \in {ToFloat(0), ToFloat(4)}
                      /\ r.sample_interval = ToFloat(3)
                      /\ r.quality = "Best"
                      /\ r.repeat = "Repeat"}

\* Two browser sessions whose script threads interleave at every step.
NextConcurrent ==
    \E s \in Sessions : Convert(s, ConcurrentRequests) \/ Step(s) \/ Rerun(s)

SpecConcurrent == Init /\ [][NextConcurrent]_vars

\* Every call of main and of its collaborators returns: a request in flight
\* keeps being run by its session's script thread.
FairSpec ==
    /\ SpecConcurrent
    /\ \A s \in Sessions :
          /\ WF_vars(OpenClip(s))
          /\ WF_vars(CheckWindow(s))
          /\ WF_vars(GetFrame(s))
          /\ WF_vars(MakeSequenceClip(s))
          /\ WF_vars(WriteGifBegin(s))
          /\ WF_vars(WriteGifEnd(s))
          /\ WF_vars(Finally(s))
          /\ WF_vars(UnlinkTemp(s))
          /\ WF_vars(CheckExists(s))
          /\ WF_vars(ShowImage(s))
          /\ WF_vars(Download(s))
          /\ WF_vars(UnlinkGif(s))

(* ------------------------------ properties ---------------------------- *)

\* convert_to_gif has returned to main.
Returned(s) ==
    pc[s] \in {"unlink_temp", "exists", "image", "download", "unlink_gif", "done"}

\* The window check let the request through and sample_times is set.
TimesSet(s) ==
    /\ pc[s] \notin {"idle", "open", "window"}
    /\ exc[s] \notin {"OpenError", "ValueError"}

\* The request's window in exact tenths of a second.
Min(a, b) == IF a < b THEN a ELSE b
ExactEnd(s) == Min(req[s].start_time.k + req[s].duration.k, clip_duration[s].k)
ExactWindow(s) == ExactEnd(s) - req[s].start_time.k
ExactCount(s) ==
    (ExactWindow(s) + req[s].sample_interval.k - 1) \div req[s].sample_interval.k

\* The bytes the request's own write_gif produces when it completes.
OwnGif(s) == Bytes(s, id[s], TRUE)

\* A file of the request is in temp_gifs.
LeftOnDisk(s) ==
    \E p \in OutputPaths : disk[p].owner = s /\ disk[p].id = id[s]

\* C1: a request with start_time >= clip.duration fails at the window
\* check: convert_to_gif returns None, no frame is requested from the
\* decoder, neither ImageSequenceClip nor write_gif is called, no output
\* file is written, and main reports the failure.
C1_InvalidWindowFails ==
    \A s \in Sessions :
        ( /\ pc[s] \notin {"idle", "open", "window"}
          /\ exc[s] # "OpenError"
          /\ FGe(req[s].start_time, clip_duration[s]) )
        => /\ exc[s] = "ValueError"
           /\ requested[s] = <<>>
           /\ sequence_calls[s] = <<>>
           /\ gif_writes[s] = <<>>
           /\ gif_path[s] = NoPath
           /\ ~LeftOnDisk(s)
           /\ "success" \notin messages[s]
           /\ (pc[s] = "done" => messages[s] = {"error"})

C1_Witness ==
    \E s \in Sessions :
        /\ pc[s] = "done"
        /\ FGe(req[s].start_time, clip_duration[s])
        /\ exc[s] = "ValueError"
        /\ messages[s] = {"error"}

\* C2: for a valid request the sampled timestamps are the values
\* start_time + k * sample_interval strictly below
\* effective_end = min(start_time + duration, clip.duration): there are
\* ceil((effective_end - start_time) / sample_interval) of them, the first
\* is start_time, they increase strictly, and none is >= effective_end or
\* >= clip.duration.
C2_HalfOpenTimestamps ==
    \A s \in Sessions :
        TimesSet(s) =>
            LET ts == sample_times[s]
            IN  /\ Len(ts) = ExactCount(s)
                /\ Len(ts) >= 1 => ts[1] = req[s].start_time
                /\ \A i \in DOMAIN ts :
                      /\ ts[i].k = req[s].start_time.k
                                   + (i - 1) * req[s].sample_interval.k
                      /\ FLt(ts[i], EndTime(req[s].start_time, req[s].duration,
                                            clip_duration[s]))
                      /\ FLt(ts[i], clip_duration[s])
                /\ \A i, j \in DOMAIN ts : i < j => FLt(ts[i], ts[j])

\* The spec's condition for an empty sampling (4.1, 8): the sampling interval
\* is at least as long as the window.
IntervalCoversWindow(s) == req[s].sample_interval.k >= ExactWindow(s)

C4_ReleasedOnEveryExit ==
    \A s \in Sessions :
        pc[s] = "done"
        => /\ clip[s] # "open"
           /\ sampled_clip[s] # "open"
           /\ ~temp_file[s]
           /\ ~LeftOnDisk(s)

\* C5: concurrent requests are independent: a request whose own encode
\* completed ends with success and no error, and what it shows and offers
\* for download are the bytes its own write_gif produced, whatever the
\* other session writes or deletes.
C5_RequestsIndependent ==
    \A s \in Sessions :
        /\ (pc[s] = "done" /\ exc[s] = "none")
           => /\ messages[s] = {"success"}
              /\ image[s] = OwnGif(s)
              /\ download[s] = OwnGif(s)
        /\ image[s] # NoFile => image[s] = OwnGif(s)
        /\ download[s] # NoFile => download[s] = OwnGif(s)

\* The request's state in the spec's lifecycle.
Stage(s) ==
    CASE pc[s] = "idle" -> "Idle"
      [] pc[s] # "idle" /\ (exc[s] # "none" \/ "error" \in messages[s])
            -> "Failed"
      [] OTHER ->
            CASE pc[s] \in {"open", "window"} -> "Received"
              [] pc[s] = "fetch" -> "Validated"
              [] pc[s] \in {"sequence", "write", "writing"} -> "Sampled"
              [] pc[s] = "done" -> "Delivered"
              [] OTHER -> "Encoded"

StageSteps ==
    {<<"Idle", "Received">>, <<"Received", "Validated">>,
     <<"Validated", "Sampled">>, <<"Sampled", "Encoded">>,
     <<"Encoded", "Delivered">>,
     <<"Received", "Failed">>, <<"Validated", "Failed">>,
     <<"Sampled", "Failed">>, <<"Encoded", "Failed">>,
     <<"Delivered", "Idle">>, <<"Failed", "Idle">>}

C6_Order ==
    \A s \in Sessions :
        /\ (sequence_calls[s] # <<>> \/ gif_writes[s] # <<>>)
           => /\ FLt(req[s].start_time, clip_duration[s])
              /\ Len(sample_times[s]) >= 1
              /\ frames[s] = sample_times[s]
        /\ Stage(s) \in {"Encoded", "Delivered"}
           => /\ Len(sequence_calls[s]) = 1
              /\ Len(gif_writes[s]) = 1
        /\ Stage(s) = "Delivered"
           => /\ image[s] # NoFile
              /\ download[s] # NoFile
        /\ (image[s] # NoFile \/ "success" \in messages[s])
           => (Len(gif_writes[s]) = 1 /\ exc[s] = "none" /\ Returned(s))

\* C6: every request goes Received -> Validated -> Sampled -> Encoded ->
\* Delivered in that order, no stage skipped or repeated, or drops to
\* Failed and stays there; the encoder is invoked only after the window
\* check passed and every frame was fetched, a result is delivered only
\* after the encode completed, and every request started ends Delivered or
\* Failed.
C6_Lifecycle ==
    /\ [][\A s \in Sessions :
              \/ Stage(s)' = Stage(s)
              \/ <<Stage(s), Stage(s)'>> \in StageSteps]_vars
    /\ []C6_Order
    /\ \A s \in Sessions :
          (Stage(s) = "Received") ~> (pc[s] = "done")

C6_Witness ==
    \E s \in Sessions :
        /\ Stage(s) = "Delivered"
        /\ Len(frames[s]) >= 2
        /\ image[s] = OwnGif(s)

\* C7: the repeat choice is two-valued: "Repeat" hands write_gif loop 0
\* (loop forever), "No repeat" hands it loop 1 (play once), and no other
\* loop value is ever passed.
C7_LoopPolicy ==
    \A s \in Sessions :
        \A i \in DOMAIN gif_writes[s] :
            /\ gif_writes[s][i].loop \in {0, 1}
            /\ req[s].repeat = "Repeat" => gif_writes[s][i].loop = 0
            /\ req[s].repeat = "No repeat" => gif_writes[s][i].loop = 1

C7_Witness ==
    \E s \in Sessions :
        /\ pc[s] = "done"
        /\ req[s].repeat = "Repeat"
        /\ Len(gif_writes[s]) = 1
        /\ gif_writes[s][1].loop = 0

\* C8: write_gif gets the lossless option for quality Best and never for
\* Good, Medium or Low, and QUALITY_SETTINGS is the same table after any
\* sequence of requests.
C8_QualityOptions ==
    /\ DOMAIN QUALITY_SETTINGS = {"Best", "Good", "Medium", "Low"}
    /\ QUALITY_SETTINGS["Best"].opt = "-lossless"
    /\ \A q \in {"Good", "Medium", "Low"} : QUALITY_SETTINGS[q].opt = None
    /\ \A s \in Sessions :
          \A i \in DOMAIN gif_writes[s] :
              (gif_writes[s][i].opt = "-lossless") <=> (req[s].quality = "Best")

C8_Witness ==
    \E s \in Sessions :
        /\ started = MaxRequests
        /\ pc[s] = "done"
        /\ req[s].quality = "Medium"
        /\ Len(gif_writes[s]) = 1
        /\ gif_writes[s][1].opt = None

\* C9: frames are requested one per timestamp in increasing timestamp
\* order, and a failed fetch fails the whole conversion: the frames fetched
\* so far reach neither ImageSequenceClip nor write_gif and no artifact is
\* returned.
C9_OrderedAllOrNothing ==
    \A s \in Sessions :
        /\ Len(requested[s]) <= Len(sample_times[s])
        /\ \A i \in DOMAIN requested[s] : requested[s][i] = sample_times[s][i]
        /\ \A i, j \in DOMAIN requested[s] :
              i < j => FLt(requested[s][i], requested[s][j])
        /\ exc[s] # "DecodeError" => frames[s] = requested[s]
        /\ exc[s] = "DecodeError"
           => /\ frames[s] = SubSeq(requested[s], 1, Len(requested[s]) - 1)
              /\ sequence_calls[s] = <<>>
              /\ gif_writes[s] = <<>>
              /\ gif_path[s] = NoPath
              /\ "success" \notin messages[s]
        /\ \A i \in DOMAIN sequence_calls[s] :
              sequence_calls[s][i] = sample_times[s]

C9_Witness ==
    \E s \in Sessions :
        /\ pc[s] = "done"
        /\ exc[s] = "DecodeError"
        /\ Len(requested[s]) >= 2
        /\ messages[s] = {"error"}

\* What a finished request shows its caller.
Surfaced(s) == <<gif_path[s], messages[s]>>

\* C10 as stated: write_gif is called at most once per request, a failed
\* encode yields no artifact path, and the failure that reaches the caller
\* tells an encode failure from a failure of another kind.
C10_EncodeFailureIdentified ==
    /\ \A s \in Sessions :
          /\ Len(gif_writes[s]) <= 1
          /\ (Returned(s) /\ exc[s] = "EncodeError") => gif_path[s] = NoPath
    /\ \A s, t \in Sessions :
          ( /\ pc[s] = "done" /\ pc[t] = "done"
            /\ exc[s] = "EncodeError"
            /\ exc[t] \notin {"none", "EncodeError"} )
          => Surfaced(s) # Surfaced(t)

\* C10 as amended: write_gif is called at most once per request and is not
\* retried; after an encode failure, as after any other failure inside
\* convert_to_gif, the caller gets None and shows the one generic error, so
\* what it gets does not tell the kind of failure.
C10_EncodeFailureIsNone ==
    \A s \in Sessions :
        /\ Len(gif_writes[s]) <= 1
        /\ (Returned(s) /\ exc[s] # "none") => gif_path[s] = NoPath
        /\ (pc[s] = "done" /\ exc[s] # "none")
           => /\ Surfaced(s) = <<NoPath, {"error"}>>
              /\ image[s] = NoFile
              /\ download[s] = NoFile

C10_Witness ==
    \E s \in Sessions :
        /\ pc[s] = "done"
        /\ exc[s] = "EncodeError"
        /\ Len(gif_writes[s]) = 1
        /\ Surfaced(s) = <<NoPath, {"error"}>>

=============================================================================
